---- MODULE Spec2Model ----
(***************************************************************************)
(* bye-watch: a polling price-threshold watcher (src/src/main.rs).         *)
(* main loads config.json and loops: check_currencies, write config.json,  *)
(* sleep.  check_currencies fetches the prices, walks the configured       *)
(* CurrencyAlert rules, collects the fired alerts in one body and mails    *)
(* the body once.                                                          *)
(***************************************************************************)
EXTENDS Integers, Sequences, FiniteSets, TLC

(* ---------------------------------------------------------------------- *)
(* Bounds of the model                                                     *)
(* ---------------------------------------------------------------------- *)
\* number of CurrencyAlert entries in config.currencies
NumRules == 2
\* largest value the system clock (seconds since the epoch) returns
MaxTime == 2
\* largest number of entries in the price source's answer
MaxPrices == 2

(* ---------------------------------------------------------------------- *)
(* Option / Result values                                                  *)
(* ---------------------------------------------------------------------- *)
None == << >>
Some(x) == << x >>
IsSome(o) == o # None
Unwrap(o) == o[1]

Times == 0 .. MaxTime

(* ---------------------------------------------------------------------- *)
(* Configuration data                                                      *)
(* ---------------------------------------------------------------------- *)
\* 24 * 60 * 60, the default of withold_notification_h
DefaultWithold == 86400

\* values of Config.withold_notification_h the model loads
WitholdChoices == { None, Some(1) }

\* symbols the configured rules watch
RuleSymbols == << "BTCUSDT", "ETHUSDT" >>
\* symbols the price source knows
AllSymbols == { "BTCUSDT", "ETHUSDT", "DOGEUSDT" }
\* price strings the price source returns
PriceStrings == { "1", "2", "3", "abc" }

\* the rule the model loads at position i of config.currencies
RuleSymbol(i) == RuleSymbols[((i - 1) % Len(RuleSymbols)) + 1]
RuleCondition(i) == IF i % 4 \in {0, 1} THEN "Above" ELSE "Below"
RuleThreshold(i) == 2

CurrencyAlert(i, last) ==
  [ symbol |-> RuleSymbol(i),
    threshold |-> RuleThreshold(i),
    alert_condition |-> RuleCondition(i),
    last_alerted |-> last ]

BinancePrice == [ symbol : AllSymbols, price : PriceStrings ]

(* ---------------------------------------------------------------------- *)
(* Pure helpers of check_currencies and fetch_prices                       *)
(* ---------------------------------------------------------------------- *)
\* str::parse::<f64>: Some(value) for a decimal literal, None (Err) otherwise
ParseF64(s) ==
  CASE s = "1" -> Some(1)
    [] s = "2" -> Some(2)
    [] s = "3" -> Some(3)
    [] OTHER -> None

\* the filter of fetch_prices: keeps the entries whose symbol is configured
FilterPrices(resp, rules) ==
  LET currency_symbols == { rules[i].symbol : i \in 1 .. Len(rules) }
  IN SelectSeq(resp, LAMBDA price_data : price_data.symbol \in currency_symbols)

\* prices.iter().find(|p| p.symbol == symbol): the first match, if any
FindPrice(ps, symbol) ==
  LET hits == { k \in 1 .. Len(ps) : ps[k].symbol = symbol }
  IN IF hits = {} THEN None
     ELSE Some(ps[CHOOSE k \in hits : \A j \in hits : k <= j])

\* variant: Below also triggers at the threshold
AlertTriggered_BelowInclusive(alert_condition, price, threshold) ==
  IF alert_condition = "Above" THEN price > threshold ELSE price <= threshold

\* variant: the comparison is not strict
AlertTriggered_NonStrict(alert_condition, price, threshold) ==
  IF alert_condition = "Above" THEN price >= threshold ELSE price <= threshold

\* the match on alert_condition, on a parsed price
AlertTriggered(alert_condition, price, threshold) ==
  IF alert_condition = "Above" THEN price > threshold ELSE price < threshold

\* variant: the configured value is ignored
WitholdTimeSecs_AlwaysDefault(w) == DefaultWithold

\* withold_notification_h.unwrap_or(24 * 60 * 60)
WitholdTimeSecs(w) == IF IsSome(w) THEN Unwrap(w) ELSE DefaultWithold

\* current_time - timestamp on u64.  With overflow checks (debug profile) a
\* negative difference panics; without them (release profile) it wraps to
\* 2^64 - (timestamp - current_time), recorded here as the deficit.
U64Sub(a, b, checks) ==
  IF a >= b THEN [ kind |-> "value", value |-> a - b ]
  ELSE IF checks THEN [ kind |-> "panic", value |-> 0 ]
  ELSE [ kind |-> "wrapped", value |-> b - a ]

\* diff > withold_time_secs.  A wrapped difference is 2^64 - deficit, which
\* exceeds every cooldown of the model (deficit + cooldown < 2^64).
U64Gt(diff, secs) ==
  IF diff.kind = "wrapped" THEN TRUE ELSE diff.value > secs

\* variant: a rule that was never alerted does not alert
ShouldAlert_NoneHolds(last_alerted, now, secs, checks) ==
  IF IsSome(last_alerted)
  THEN LET diff == U64Sub(now, Unwrap(last_alerted), checks)
       IN IF diff.kind = "panic" THEN "panic"
          ELSE IF U64Gt(diff, secs) THEN "true" ELSE "false"
  ELSE "false"

\* variant: the withold time is not looked at
ShouldAlert_IgnoresCooldown(last_alerted, now, secs, checks) == "true"

\* the match on currency.last_alerted: "true", "false", or "panic" when the
\* subtraction panics
ShouldAlert(last_alerted, now, secs, checks) ==
  IF IsSome(last_alerted)
  THEN LET diff == U64Sub(now, Unwrap(last_alerted), checks)
       IN IF diff.kind = "panic" THEN "panic"
          ELSE IF U64Gt(diff, secs) THEN "true" ELSE "false"
  ELSE "true"

\* the format! of one alert's text (the wall-clock time it prints is left out)
PriceText(currency, price_string) ==
  [ symbol |-> currency.symbol,
    alert_condition |-> currency.alert_condition,
    threshold |-> currency.threshold,
    price |-> IF IsSome(ParseF64(price_string))
              THEN Unwrap(ParseF64(price_string)) ELSE 0 ]

\* the format! of the mail body
MailBody(b) == [ header |-> "Found the following crypto alerts", alerts |-> b ]

\* answers of the price source: at most MaxPrices entries, one per symbol
Responses ==
  { r \in UNION { [1 .. n -> BinancePrice] : n \in 0 .. MaxPrices } :
      \A j, k \in 1 .. Len(r) : j # k => r[j].symbol # r[k].symbol }

(* ---------------------------------------------------------------------- *)
(* State                                                                   *)
(* ---------------------------------------------------------------------- *)
VARIABLES
  pc,                      \* position of main: fetch, eval, notify, persist, sleep
  status,                  \* "running", or how the process ended
  overflow_checks,         \* build profile: TRUE = debug, FALSE = release
  withold_notification_h,  \* Config.withold_notification_h
  currencies,              \* Config.currencies
  config_json,             \* the currencies stored in config.json
  fetch,                   \* outcome of fetch_prices in this cycle
  prices,                  \* check_currencies: prices
  body,                    \* check_currencies: body (the fired alerts' texts)
  current_time,            \* check_currencies: current_time
  idx,                     \* position of the for loop over config.currencies
  result,                  \* what check_currencies returned to main
  notifier_calls,          \* send_email calls of this cycle
  mail_body,               \* the body handed to send_email in this cycle
  mail_result,             \* what send_email returned in this cycle
  store_writes,            \* writes of config.json in this cycle
  pre,                     \* currencies as they were when the cycle began
  history,                 \* per rule, what the earlier cycles did with it
  prev_fetch,              \* outcome of fetch_prices in the cycle before
  track                    \* the << kind, rule >> pairs of history this run records

vars == << pc, status, overflow_checks, withold_notification_h, currencies,
           config_json, fetch, prices, body, current_time, idx, result,
           notifier_calls, mail_body, mail_result, store_writes, pre, history,
           prev_fetch, track >>

config == << overflow_checks, withold_notification_h, track >>
locals == << prices, body, current_time, idx >>
mailer == << notifier_calls, mail_body, mail_result >>

Running == status = "running"

\* a rule no cycle has evaluated yet
NoHistory ==
  [ last_met |-> "never",        \* condition at the most recent evaluation
    last_fire |-> None,          \* current_time of the most recent fire, while
                                 \* every evaluation since found the condition met
    reset_after_fire |-> FALSE,  \* the rule fired, and its evaluations since
                                 \* the last fire end with one not met
    undelivered |-> FALSE ]      \* the mail of the most recent fire failed

\* main before the loop: config.json is read and parsed
Loaded ==
  /\ pc = "fetch"
  /\ status = "running"
  /\ overflow_checks \in BOOLEAN
  /\ withold_notification_h \in WitholdChoices
  /\ currencies = [ i \in 1 .. NumRules |-> CurrencyAlert(i, None) ]
  /\ config_json = currencies
  /\ fetch = "pending"
  /\ prices = << >>
  /\ body = << >>
  /\ current_time = 0
  /\ idx = 1
  /\ result = "none"
  /\ notifier_calls = 0
  /\ mail_body = None
  /\ mail_result = "none"
  /\ store_writes = 0
  /\ pre = currencies
  /\ history = [ i \in 1 .. NumRules |-> NoHistory ]
  /\ prev_fetch = "none"

\* a run that records no history
Init == Loaded /\ track = { }
\* runs that record one kind of history each, to keep the state space small
InitMet == Loaded /\ track = { << "met", i >> : i \in 1 .. NumRules }
InitFire == Loaded /\ track = { << "fire", i >> : i \in 1 .. NumRules }
InitMail == Loaded /\ track = { << "mail", i >> : i \in 1 .. NumRules }
InitFetch == Loaded /\ track = { << "fetch", 0 >> }

(* ---------------------------------------------------------------------- *)
(* check_currencies: the body of the for loop, for one currency            *)
(* ---------------------------------------------------------------------- *)
\* the branch the loop body takes for one currency
Branch(currency, ps, now, secs, checks) ==
  LET found == FindPrice(ps, currency.symbol)
  IN IF found = None THEN "no_price"
     ELSE LET parsed == ParseF64(Unwrap(found).price)
          IN IF parsed = None THEN "parse_panic"
             ELSE IF AlertTriggered(currency.alert_condition, Unwrap(parsed),
                                    currency.threshold)
                  THEN LET should_alert ==
                             ShouldAlert(currency.last_alerted, now, secs, checks)
                       IN IF should_alert = "panic" THEN "overflow_panic"
                          ELSE IF should_alert = "true" THEN "fire" ELSE "suppress"
                  ELSE IF IsSome(currency.last_alerted) THEN "reset"
                       ELSE "not_met"

InLoop == Running /\ pc = "eval" /\ idx <= Len(currencies)

CurrentBranch ==
  Branch(currencies[idx], prices, current_time,
         WitholdTimeSecs(withold_notification_h), overflow_checks)

\* what the loop does after the body: the next currency, or on to the mail
Advance ==
  /\ idx' = idx + 1
  /\ pc' = IF idx = Len(currencies) THEN "notify" ELSE "eval"

\* variant: a missing price is handled as a condition that is not met
NoPriceData_Resets ==
  /\ InLoop /\ CurrentBranch = "no_price"
  /\ currencies' = [ currencies EXCEPT ![idx].last_alerted = None ]
  /\ Advance
  /\ UNCHANGED << status, config, config_json, fetch, prices, body,
                  current_time, result, mailer, pre,
                  store_writes, history, prev_fetch >>

\* line 167: no price for the symbol, the currency is left alone
NoPriceData ==
  /\ InLoop /\ CurrentBranch = "no_price"
  /\ Advance
  /\ UNCHANGED << status, config, currencies, config_json, fetch, prices, body,
                  current_time, result, mailer, pre,
                  store_writes, history, prev_fetch >>

\* lines 107/110: parse::<f64>().unwrap() on a malformed price
ParsePanic ==
  /\ InLoop /\ CurrentBranch = "parse_panic"
  /\ status' = "panic: ParseFloatError"
  /\ UNCHANGED << pc, config, currencies, config_json, fetch, locals, result,
                  mailer, pre,
                  store_writes, history, prev_fetch >>

\* line 119 in a build with overflow checks: current_time < timestamp
OverflowPanic ==
  /\ InLoop /\ CurrentBranch = "overflow_panic"
  /\ status' = "panic: attempt to subtract with overflow"
  /\ UNCHANGED << pc, config, currencies, config_json, fetch, locals, result,
                  mailer, pre,
                  store_writes, history, prev_fetch >>

\* variant: the mail goes out inside the loop, one per alert
Fire_SendsAtOnce ==
  /\ InLoop /\ CurrentBranch = "fire"
  /\ body' = Append(body, PriceText(currencies[idx],
                      Unwrap(FindPrice(prices, currencies[idx].symbol)).price))
  /\ currencies' = [ currencies EXCEPT ![idx].last_alerted = Some(current_time) ]
  /\ notifier_calls' = notifier_calls + 1
  /\ mail_body' = Some(MailBody(body'))
  /\ mail_result' = "ok"
  /\ Advance
  /\ UNCHANGED << status, config, config_json, fetch, prices, current_time,
                  result, pre, store_writes, history, prev_fetch >>

\* variant: the text replaces the body instead of being appended
Fire_OverwritesBody ==
  /\ InLoop /\ CurrentBranch = "fire"
  /\ body' = << PriceText(currencies[idx],
                  Unwrap(FindPrice(prices, currencies[idx].symbol)).price) >>
  /\ currencies' = [ currencies EXCEPT ![idx].last_alerted = Some(current_time) ]
  /\ Advance
  /\ UNCHANGED << status, config, config_json, fetch, prices, current_time,
                  result, mailer, pre,
                  store_writes, history, prev_fetch >>

\* lines 122-139: the alert fires
Fire ==
  /\ InLoop /\ CurrentBranch = "fire"
  /\ body' = Append(body, PriceText(currencies[idx],
                      Unwrap(FindPrice(prices, currencies[idx].symbol)).price))
  /\ currencies' = [ currencies EXCEPT ![idx].last_alerted = Some(current_time) ]
  /\ Advance
  /\ UNCHANGED << status, config, config_json, fetch, prices, current_time,
                  result, mailer, pre,
                  store_writes, history, prev_fetch >>

\* variant: a suppressed alert clears the alert status
Suppress_Clears ==
  /\ InLoop /\ CurrentBranch = "suppress"
  /\ currencies' = [ currencies EXCEPT ![idx].last_alerted = None ]
  /\ Advance
  /\ UNCHANGED << status, config, config_json, fetch, prices, body,
                  current_time, result, mailer, pre,
                  store_writes, history, prev_fetch >>

\* lines 140-148: condition met, but alerted within the withold time
Suppress ==
  /\ InLoop /\ CurrentBranch = "suppress"
  /\ Advance
  /\ UNCHANGED << status, config, currencies, config_json, fetch, prices, body,
                  current_time, result, mailer, pre,
                  store_writes, history, prev_fetch >>

\* variant: the alert status is not reset
Reset_KeepsAlerted ==
  /\ InLoop /\ CurrentBranch = "reset"
  /\ Advance
  /\ UNCHANGED << status, config, currencies, config_json, fetch, prices, body,
                  current_time, result, mailer, pre,
                  store_writes, history, prev_fetch >>

\* lines 150-155: the condition is no longer met
Reset ==
  /\ InLoop /\ CurrentBranch = "reset"
  /\ currencies' = [ currencies EXCEPT ![idx].last_alerted = None ]
  /\ Advance
  /\ UNCHANGED << status, config, config_json, fetch, prices, body,
                  current_time, result, mailer, pre,
                  store_writes, history, prev_fetch >>

\* lines 156-164: condition not met, nothing to reset
NotMet ==
  /\ InLoop /\ CurrentBranch = "not_met"
  /\ Advance
  /\ UNCHANGED << status, config, currencies, config_json, fetch, prices, body,
                  current_time, result, mailer, pre,
                  store_writes, history, prev_fetch >>

(* ---------------------------------------------------------------------- *)
(* check_currencies: before and after the loop                             *)
(* ---------------------------------------------------------------------- *)
\* variant: main returns the error of check_currencies
FetchFail_Exits ==
  /\ Running /\ pc = "fetch"
  /\ fetch' = "failed"
  /\ result' = "Err"
  /\ status' = "exit: fetch error"
  /\ UNCHANGED << pc, config, currencies, config_json, locals, mailer, pre,
                  store_writes, history, prev_fetch >>

\* variant: the error is swallowed and the cycle goes on without prices
FetchFail_Swallowed ==
  /\ Running /\ pc = "fetch"
  /\ fetch' = "failed"
  /\ prices' = << >>
  /\ body' = << >>
  /\ idx' = 1
  /\ pc' = "eval"
  /\ UNCHANGED << status, config, currencies, config_json, current_time,
                  result, mailer, pre,
                  store_writes, history, prev_fetch >>

\* line 99: fetch_prices fails (transport error, HTTP status, bad JSON)
FetchFail ==
  /\ Running /\ pc = "fetch"
  /\ fetch' = "failed"
  /\ result' = "Err"
  /\ pc' = "persist"
  /\ UNCHANGED << status, config, currencies, config_json, locals, mailer, pre,
                  store_writes, history, prev_fetch >>

\* lines 99-102: the prices arrive and the clock is read
FetchOk ==
  /\ Running /\ pc = "fetch"
  /\ \E resp \in Responses, now \in Times :
       /\ prices' = FilterPrices(resp, currencies)
       /\ current_time' = now
  /\ fetch' = "ok"
  /\ body' = << >>
  /\ idx' = 1
  /\ pc' = IF Len(currencies) = 0 THEN "notify" ELSE "eval"
  /\ UNCHANGED << status, config, currencies, config_json, result, mailer, pre,
                  store_writes, history, prev_fetch >>

\* line 102: the clock is before the epoch, duration_since fails
ClockFail ==
  /\ Running /\ pc = "fetch"
  /\ \E resp \in Responses : prices' = FilterPrices(resp, currencies)
  /\ fetch' = "ok"
  /\ result' = "Err"
  /\ pc' = "persist"
  /\ UNCHANGED << status, config, currencies, config_json, body, current_time,
                  idx, mailer, pre,
                  store_writes, history, prev_fetch >>

\* variant: the mail is sent although the body is empty
NoMail_SendsAnyway ==
  /\ Running /\ pc = "notify" /\ body = << >>
  /\ notifier_calls' = notifier_calls + 1
  /\ mail_body' = Some(MailBody(body))
  /\ mail_result' = "ok"
  /\ result' = "Ok"
  /\ pc' = "persist"
  /\ UNCHANGED << status, config, currencies, config_json, fetch, locals, pre,
                  store_writes, history, prev_fetch >>

\* line 171: nothing fired, no mail
NoMail ==
  /\ Running /\ pc = "notify" /\ body = << >>
  /\ result' = "Ok"
  /\ pc' = "persist"
  /\ UNCHANGED << status, config, currencies, config_json, fetch, locals,
                  mailer, pre,
                  store_writes, history, prev_fetch >>

\* lines 171-177: the mail is sent
SendEmailOk ==
  /\ Running /\ pc = "notify" /\ body # << >>
  /\ notifier_calls' = notifier_calls + 1
  /\ mail_body' = Some(MailBody(body))
  /\ mail_result' = "ok"
  /\ result' = "Ok"
  /\ pc' = "persist"
  /\ UNCHANGED << status, config, currencies, config_json, fetch, locals, pre,
                  store_writes, history, prev_fetch >>

\* variant: a failed mail puts the fired rules back as they were
SendEmailFail_RollsBack ==
  /\ Running /\ pc = "notify" /\ body # << >>
  /\ notifier_calls' = notifier_calls + 1
  /\ mail_body' = Some(MailBody(body))
  /\ mail_result' = "failed"
  /\ result' = "Err"
  /\ currencies' = pre
  /\ pc' = "persist"
  /\ UNCHANGED << status, config, config_json, fetch, locals, pre,
                  store_writes, history, prev_fetch >>

\* line 173: send_email fails
SendEmailFail ==
  /\ Running /\ pc = "notify" /\ body # << >>
  /\ notifier_calls' = notifier_calls + 1
  /\ mail_body' = Some(MailBody(body))
  /\ mail_result' = "failed"
  /\ result' = "Err"
  /\ pc' = "persist"
  /\ UNCHANGED << status, config, currencies, config_json, fetch, locals, pre,
                  store_writes, history, prev_fetch >>

(* ---------------------------------------------------------------------- *)
(* Vocabulary of the properties                                            *)
(* ---------------------------------------------------------------------- *)
Rules == 1 .. NumRules

\* the loop has finished its pass over rule i in the current cycle
Evaluated(i) == fetch = "ok" /\ idx > i

\* check_currencies has returned to main in the current cycle
CycleReturned == Running /\ pc \in { "persist", "sleep" }

\* the cooldown window of the configuration
Cooldown ==
  IF withold_notification_h = None THEN 86400 ELSE withold_notification_h[1]

\* the fetched price of rule i's symbol is present and a number
HasPrice(i) ==
  \E k \in 1 .. Len(prices) :
    prices[k].symbol = currencies[i].symbol /\ prices[k].price \in { "1", "2", "3" }

PriceValue(i) ==
  LET k == CHOOSE k \in 1 .. Len(prices) : prices[k].symbol = currencies[i].symbol
  IN CASE prices[k].price = "1" -> 1
       [] prices[k].price = "2" -> 2
       [] prices[k].price = "3" -> 3

\* price > threshold for Above, price < threshold for Below
ConditionMet(i) ==
  /\ HasPrice(i)
  /\ \/ currencies[i].alert_condition = "Above"
        /\ PriceValue(i) > currencies[i].threshold
     \/ currencies[i].alert_condition = "Below"
        /\ PriceValue(i) < currencies[i].threshold

ConditionNotMet(i) == HasPrice(i) /\ ~ConditionMet(i)

\* the text of rule i is in a sequence of alert texts
MessageIn(i, texts) ==
  \E k \in 1 .. Len(texts) :
    /\ texts[k].symbol = currencies[i].symbol
    /\ texts[k].alert_condition = currencies[i].alert_condition
    /\ texts[k].threshold = currencies[i].threshold
    /\ texts[k].price = PriceValue(i)

Before(i) == pre[i].last_alerted
After(i) == currencies[i].last_alerted

\* rule i fired in this cycle: its last_alerted was set anew
FiredInCycle(i) == fetch = "ok" /\ IsSome(After(i)) /\ After(i) # Before(i)

\* the fetched prices hold no entry for rule i's symbol
NoPrice(i) ==
  \A k \in 1 .. Len(prices) : prices[k].symbol # currencies[i].symbol

\* some text of rule i, whatever its price, is in a sequence of alert texts
AnyTextOf(i, texts) ==
  \E k \in 1 .. Len(texts) :
    /\ texts[k].symbol = currencies[i].symbol
    /\ texts[k].alert_condition = currencies[i].alert_condition

(* ---------------------------------------------------------------------- *)
(* History: what a finished cycle adds to the record of rule i             *)
(* ---------------------------------------------------------------------- *)
Observe(i) ==
  LET h == history[i]
      evaluated == Evaluated(i) /\ HasPrice(i)
      met == ConditionMet(i)
      fired == AnyTextOf(i, body)
  IN [ last_met |->
         IF << "met", i >> \in track /\ evaluated
         THEN (IF met THEN "met" ELSE "not_met")
         ELSE h.last_met,
       last_fire |->
         IF << "fire", i >> \in track /\ fired THEN Some(current_time)
         ELSE IF << "fire", i >> \in track /\ evaluated /\ ~met THEN None
         ELSE h.last_fire,
       reset_after_fire |->
         IF << "fire", i >> \in track /\ fired THEN FALSE
         ELSE IF << "fire", i >> \in track /\ evaluated /\ ~met
                 /\ IsSome(h.last_fire)
              THEN TRUE
         ELSE h.reset_after_fire,
       undelivered |->
         IF << "mail", i >> \in track /\ fired THEN mail_result = "failed"
         ELSE IF << "mail", i >> \in track /\ evaluated /\ ~met THEN FALSE
         ELSE h.undelivered ]

(* ---------------------------------------------------------------------- *)
(* main: the rest of the loop                                              *)
(* ---------------------------------------------------------------------- *)
\* variant: config.json is rewritten only after a successful check
Persist_OnlyOnOk ==
  /\ Running /\ pc = "persist"
  /\ config_json' = IF result = "Ok" THEN currencies ELSE config_json
  /\ store_writes' = IF result = "Ok" THEN store_writes + 1 ELSE store_writes
  /\ pc' = "sleep"
  /\ UNCHANGED << status, config, currencies, fetch, locals, result, mailer, pre,
                  history, prev_fetch >>

\* lines 71-72: config.json is rewritten, whatever check_currencies returned
Persist ==
  /\ Running /\ pc = "persist"
  /\ config_json' = currencies
  /\ store_writes' = store_writes + 1
  /\ pc' = "sleep"
  /\ UNCHANGED << status, config, currencies, fetch, locals, result, mailer, pre,
                  history, prev_fetch >>

\* line 72: fs::write fails and main returns the error
PersistFail ==
  /\ Running /\ pc = "persist"
  /\ status' = "exit: io error"
  /\ UNCHANGED << pc, config, currencies, config_json, fetch, locals, result,
                  mailer, pre,
                  store_writes, history, prev_fetch >>

\* line 73: sleep, then the next cycle (the cycle's locals are gone)
Sleep ==
  /\ Running /\ pc = "sleep"
  /\ pc' = "fetch"
  /\ fetch' = "pending"
  /\ prices' = << >>
  /\ body' = << >>
  /\ current_time' = 0
  /\ idx' = 1
  /\ result' = "none"
  /\ notifier_calls' = 0
  /\ mail_body' = None
  /\ mail_result' = "none"
  /\ pre' = currencies
  /\ store_writes' = 0
  /\ history' = [ i \in 1 .. NumRules |-> Observe(i) ]
  /\ prev_fetch' = IF << "fetch", 0 >> \in track THEN fetch ELSE prev_fetch
  /\ UNCHANGED << status, config, currencies, config_json >>

Next ==
  \/ FetchFail \/ FetchOk \/ ClockFail
  \/ NoPriceData \/ ParsePanic \/ OverflowPanic
  \/ Fire \/ Suppress \/ Reset \/ NotMet
  \/ NoMail \/ SendEmailOk \/ SendEmailFail
  \/ Persist \/ PersistFail \/ Sleep

Spec == Init /\ [][Next]_vars
SpecMet == InitMet /\ [][Next]_vars
SpecFire == InitFire /\ [][Next]_vars
SpecMail == InitMail /\ [][Next]_vars
SpecFetch == InitFetch /\ [][Next]_vars

TypeOK ==
  /\ pc \in { "fetch", "eval", "notify", "persist", "sleep" }
  /\ idx \in 1 .. NumRules + 1
  /\ current_time \in Times
  /\ \A i \in 1 .. NumRules :
       currencies[i].last_alerted \in { None } \cup { Some(t) : t \in Times }

(* ---------------------------------------------------------------------- *)
(* Properties                                                              *)
(* ---------------------------------------------------------------------- *)

\* C1: once the loop has passed a rule whose condition is met and whose
\* last_alerted was None, the rule has fired: its text is in the body and
\* last_alerted is Some(current_time).
C1_FiresWhenNotAlerted ==
  \A i \in Rules :
    (Evaluated(i) /\ ConditionMet(i) /\ Before(i) = None)
      => (After(i) = Some(current_time) /\ MessageIn(i, body))

C1_Witness ==
  \E i \in Rules :
    /\ Evaluated(i) /\ ConditionMet(i) /\ Before(i) = None
    /\ After(i) = Some(current_time) /\ MessageIn(i, body)

\* C2: once the loop has passed a rule whose condition is met and whose
\* last_alerted was Some(t) with current_time - t <= cooldown, last_alerted is
\* still Some(t) and the body has no text of the rule.
C2_SuppressedWithinCooldown ==
  \A i \in Rules :
    (/\ Evaluated(i) /\ ConditionMet(i) /\ IsSome(Before(i))
     /\ current_time - Before(i)[1] <= Cooldown)
      => (After(i) = Before(i) /\ ~MessageIn(i, body))

\* C3: once the loop has passed a rule whose condition is met and whose
\* last_alerted was Some(t) with current_time - t > cooldown, the rule has
\* fired again: its text is in the body and last_alerted is Some(current_time).
C3_FiresAfterCooldown ==
  \A i \in Rules :
    (/\ Evaluated(i) /\ ConditionMet(i) /\ IsSome(Before(i))
     /\ current_time - Before(i)[1] > Cooldown)
      => (After(i) = Some(current_time) /\ MessageIn(i, body))

C3_Witness ==
  \E i \in Rules :
    /\ Evaluated(i) /\ ConditionMet(i) /\ IsSome(Before(i))
    /\ current_time - Before(i)[1] > Cooldown
    /\ After(i) = Some(current_time) /\ After(i) # Before(i)
    /\ MessageIn(i, body)

\* C4: once the loop has passed a rule whose condition is not met and whose
\* last_alerted was Some, last_alerted is None and the body has no text of the
\* rule, whatever the time elapsed since the last alert.
C4_ResetWhenNotMet ==
  \A i \in Rules :
    (Evaluated(i) /\ ConditionNotMet(i) /\ IsSome(Before(i)))
      => (After(i) = None /\ ~MessageIn(i, body))

C4_Witness ==
  \E i \in Rules :
    /\ Evaluated(i) /\ ConditionNotMet(i) /\ IsSome(Before(i))
    /\ current_time - Before(i)[1] > Cooldown
    /\ After(i) = None /\ ~MessageIn(i, body)

\* C5: once the loop has passed a rule whose condition is not met and whose
\* last_alerted was None, last_alerted is still None and the body has no text
\* of the rule; the rule enters the next evaluation as it entered this one.
C5_NoOpWhenNotMetAndNotAlerted ==
  \A i \in Rules :
    (Evaluated(i) /\ ConditionNotMet(i) /\ Before(i) = None)
      => (After(i) = None /\ ~MessageIn(i, body))

C5_Witness ==
  \E i \in Rules :
    /\ Evaluated(i) /\ ConditionNotMet(i) /\ Before(i) = None
    /\ After(i) = None /\ ~MessageIn(i, body)
    /\ pc = "notify"

\* C6: in a cycle whose price fetch failed, every rule is as it was before
\* the cycle, send_email has not been called and check_currencies returned
\* an error.
C6_FetchFailureAborts ==
  fetch = "failed"
    => (currencies = pre /\ notifier_calls = 0 /\ mail_body = None
        /\ result = "Err")

C6_Witness ==
  /\ fetch = "failed" /\ pc = "sleep" /\ result = "Err"
  /\ notifier_calls = 0
  /\ \E i \in Rules : IsSome(After(i))

\* C7: when check_currencies has returned from a cycle in which two or more
\* rules fired, send_email was called exactly once and the body of that call
\* holds the text of every rule that fired.
C7_OneMailWithAllAlerts ==
  (CycleReturned /\ Cardinality({ i \in Rules : FiredInCycle(i) }) >= 2)
    => (/\ notifier_calls = 1
        /\ IsSome(mail_body)
        /\ \A i \in Rules :
             FiredInCycle(i) => MessageIn(i, mail_body[1].alerts))

C7_Witness ==
  /\ CycleReturned /\ Cardinality({ i \in Rules : FiredInCycle(i) }) >= 2
  /\ notifier_calls = 1
  /\ \A i \in Rules : FiredInCycle(i) => MessageIn(i, mail_body[1].alerts)

\* C8: send_email is called at most once in a cycle, and not at all in a
\* cycle in which no rule fired.
C8_AtMostOneMail ==
  /\ notifier_calls <= 1
  /\ (\A i \in Rules : ~FiredInCycle(i)) => notifier_calls = 0

C8_Witness ==
  /\ CycleReturned /\ fetch = "ok" /\ result = "Ok"
  /\ \A i \in Rules : ~FiredInCycle(i)
  /\ \E i \in Rules : ConditionMet(i) /\ After(i) = Before(i)
  /\ \E i \in Rules : ConditionNotMet(i) /\ IsSome(Before(i)) /\ After(i) = None
  /\ notifier_calls = 0

\* C9: when main has finished a cycle whose price fetch succeeded and is about
\* to sleep, config.json holds the full rule set with the last_alerted values
\* of that cycle, whether or not a rule fired and whatever send_email returned.
C9_PersistedAfterCycle ==
  (pc = "sleep" /\ fetch = "ok")
    => (config_json = currencies /\ Len(config_json) = NumRules)

C9_Witness ==
  /\ pc = "sleep" /\ fetch = "ok"
  /\ result = "Err" /\ notifier_calls = 1
  /\ \E i \in Rules : FiredInCycle(i)
  /\ config_json = currencies

\* C10: a rule whose condition is met and whose last_alerted is later than
\* current_time is treated as within the cooldown: the subtraction does not
\* panic, last_alerted is unchanged and the body has no text of the rule.
C10_ClockBackwardSuppressed ==
  /\ status # "panic: attempt to subtract with overflow"
  /\ \A i \in Rules :
       (/\ Evaluated(i) /\ ConditionMet(i) /\ IsSome(Before(i))
        /\ current_time < Before(i)[1])
         => (After(i) = Before(i) /\ ~MessageIn(i, body))

\* the branch rule j takes when the answer holds the price of its symbol only,
\* taken from the state the rule had when the cycle began
BranchOnOwnPrice(j) ==
  Branch(pre[j],
         SelectSeq(prices, LAMBDA p : p.symbol = currencies[j].symbol),
         current_time, Cooldown, overflow_checks)

\* C11: a rule whose symbol has no price in a successful fetch keeps its
\* last_alerted and adds no text; a cycle that ran through all rules and sent no
\* mail returns Ok; and every rule that has a price ends as it would on an
\* answer in which no other price is missing or present.
C11_MissingPriceSkipsRuleOnly ==
  /\ \A i \in Rules :
       (Evaluated(i) /\ NoPrice(i))
         => (After(i) = Before(i) /\ ~AnyTextOf(i, body))
  /\ (CycleReturned /\ fetch = "ok" /\ idx > NumRules /\ notifier_calls = 0)
       => result = "Ok"
  /\ \A j \in Rules :
       (Evaluated(j) /\ ~NoPrice(j))
         => /\ After(j) = CASE BranchOnOwnPrice(j) = "fire" -> Some(current_time)
                            [] BranchOnOwnPrice(j) = "reset" -> None
                            [] OTHER -> Before(j)
            /\ AnyTextOf(j, body) <=> BranchOnOwnPrice(j) = "fire"

C11_Witness ==
  /\ CycleReturned /\ fetch = "ok" /\ result = "Ok"
  /\ \E i, j \in Rules :
       /\ NoPrice(i) /\ IsSome(Before(i)) /\ After(i) = Before(i)
       /\ ~AnyTextOf(i, body)
       /\ ~NoPrice(j) /\ FiredInCycle(j) /\ MessageIn(j, body)

\* C12: once the loop has passed a rule whose price equals its threshold, the
\* rule has not fired and its last_alerted is None, for Above and for Below.
C12_EqualityNeverTriggers ==
  \A i \in Rules :
    (Evaluated(i) /\ HasPrice(i) /\ PriceValue(i) = currencies[i].threshold)
      => (~AnyTextOf(i, body) /\ After(i) = None)

C12_Witness ==
  \E i, j \in Rules :
    /\ currencies[i].alert_condition = "Above"
    /\ currencies[j].alert_condition = "Below"
    /\ Evaluated(i) /\ HasPrice(i) /\ PriceValue(i) = currencies[i].threshold
    /\ Evaluated(j) /\ HasPrice(j) /\ PriceValue(j) = currencies[j].threshold
    /\ IsSome(Before(j)) /\ After(j) = None /\ After(i) = None
    /\ body = << >>

\* the fetched price of rule i's symbol is present and not a number
Malformed(i) == ~NoPrice(i) /\ ~HasPrice(i)

\* C13: a rule that has been evaluated has last_alerted Some exactly if its
\* condition was met at its most recent evaluation: at the start of a cycle
\* for the evaluations of the earlier cycles, and after its evaluation in the
\* current cycle for that evaluation.
C13_AlertedIffLastMet ==
  \A i \in Rules :
    /\ history[i].last_met # "never"
         => (IsSome(Before(i)) <=> history[i].last_met = "met")
    /\ (Evaluated(i) /\ HasPrice(i))
         => (IsSome(After(i)) <=> ConditionMet(i))

C13_Witness ==
  \E i, j \in Rules :
    /\ history[i].last_met = "met" /\ IsSome(Before(i))
    /\ Evaluated(i) /\ NoPrice(i) /\ IsSome(After(i))
    /\ history[j].last_met = "not_met" /\ Before(j) = None
    /\ Evaluated(j) /\ ConditionMet(j) /\ IsSome(After(j))

\* C14 as claimed: in a cycle whose price fetch failed, config.json is not
\* written.
C14_NoRewriteAfterFailedFetch ==
  fetch = "failed" => store_writes = 0

\* C14 as amended: a cycle whose price fetch failed evaluates no rule, and
\* main still writes config.json once before the next cycle, with the rule
\* set as it was before the cycle.
C14_UnchangedRewriteAfterFailedFetch ==
  /\ fetch = "failed" => (currencies = pre /\ idx = 1 /\ body = << >>)
  /\ (fetch = "failed" /\ pc = "sleep")
       => (store_writes = 1 /\ config_json = pre)

C14_Witness ==
  /\ fetch = "failed" /\ pc = "sleep" /\ Running
  /\ store_writes = 1 /\ config_json = pre
  /\ \E i \in Rules : IsSome(Before(i))

\* C15: a price that is not a number does not make the process panic: the
\* rule keeps its last_alerted and adds no text, and the loop goes on.
C15_MalformedPriceSkipsRule ==
  /\ status # "panic: ParseFloatError"
  /\ \A i \in Rules :
       (Evaluated(i) /\ Malformed(i))
         => (After(i) = Before(i) /\ ~AnyTextOf(i, body))

\* C16: when a rule fires at current_time and its most recent fire was at
\* t1 <= current_time with the condition met at every evaluation in between,
\* then current_time - t1 > cooldown.
C16_NoRefireWithinCooldown ==
  \A i \in Rules :
    (/\ Evaluated(i) /\ AnyTextOf(i, body)
     /\ IsSome(history[i].last_fire)
     /\ history[i].last_fire[1] <= current_time)
      => current_time - history[i].last_fire[1] > Cooldown

C16_Witness ==
  \E i \in Rules :
    /\ Evaluated(i) /\ MessageIn(i, body)
    /\ IsSome(history[i].last_fire)
    /\ history[i].last_fire[1] <= current_time
    /\ current_time - history[i].last_fire[1] > Cooldown
    /\ After(i) = Some(current_time)

\* C17: once the loop has passed a rule whose condition is met and which, after
\* its last fire, was last found with the condition not met, the rule has
\* fired, whatever the time since that fire.
C17_FiresAtOnceAfterReset ==
  \A i \in Rules :
    (Evaluated(i) /\ ConditionMet(i) /\ history[i].reset_after_fire)
      => (After(i) = Some(current_time) /\ MessageIn(i, body))

\* with the default withold time every clock value of the model lies within
\* the cooldown of the earlier fire
C17_Witness ==
  \E i \in Rules :
    /\ Evaluated(i) /\ ConditionMet(i) /\ history[i].reset_after_fire
    /\ withold_notification_h = None /\ MaxTime <= Cooldown
    /\ After(i) = Some(current_time) /\ MessageIn(i, body)

\* C18: a failed price fetch ends the cycle and nothing else: the process
\* keeps running (only a failed write of config.json ends it), the rules
\* stay as they were, and after the sleep the next cycle starts from them.
C18_FetchFailureAbortsCycleOnly ==
  /\ [](fetch = "failed"
          => (status \in { "running", "exit: io error" } /\ currencies = pre))
  /\ [][(fetch = "failed" /\ pc = "sleep")
          => (/\ pc' = "fetch" /\ fetch' = "pending" /\ status' = "running"
              /\ currencies' = pre /\ pre' = pre)]_vars
  /\ [](prev_fetch = "failed" /\ pc = "fetch" => ENABLED FetchOk)

C18_Witness ==
  /\ prev_fetch = "failed" /\ fetch = "ok" /\ Running /\ pc = "notify"
  /\ \A i \in Rules : Evaluated(i) /\ HasPrice(i)
  /\ \E i \in Rules : IsSome(Before(i)) /\ After(i) = None
  /\ \E i \in Rules : Before(i) = None /\ After(i) = Some(current_time)

\* C19: a cycle whose mail failed returns an error, called send_email once,
\* and config.json holds last_alerted = Some(current_time) for the rules in
\* the mail; a rule whose last mail failed, and whose condition is met at a
\* time from its last_alerted up to the cooldown later, is suppressed: no text
\* of it is added and last_alerted stays.
C19_FailedMailNotResent ==
  /\ mail_result = "failed" => (result = "Err" /\ notifier_calls = 1)
  /\ (mail_result = "failed" /\ pc = "sleep")
       => \A i \in Rules :
            AnyTextOf(i, mail_body[1].alerts)
              => config_json[i].last_alerted = Some(current_time)
  /\ \A i \in Rules :
       (/\ history[i].undelivered
        /\ Evaluated(i) /\ ConditionMet(i) /\ IsSome(Before(i))
        /\ Before(i)[1] <= current_time
        /\ current_time - Before(i)[1] <= Cooldown)
         => (After(i) = Before(i) /\ ~AnyTextOf(i, body))

C19_Witness ==
  /\ CycleReturned /\ fetch = "ok" /\ notifier_calls = 0 /\ result = "Ok"
  /\ \E i \in Rules :
       /\ history[i].undelivered
       /\ ConditionMet(i) /\ IsSome(Before(i))
       /\ Before(i)[1] <= current_time
       /\ current_time - Before(i)[1] <= Cooldown
       /\ After(i) = Before(i) /\ config_json[i].last_alerted = Before(i)

\* C20: every step keeps the order fetch, evaluate all rules, notify, persist:
\* a rule is evaluated only after a successful fetch and before any mail or
\* write of the cycle; send_email is called only when the loop has passed
\* every rule and before the write; config.json is written only after
\* check_currencies has returned; the next cycle starts only after the write.
C20_StepsInOrder ==
  [][/\ (pc = "eval" /\ idx' # idx /\ pc' # "fetch")
          => (fetch = "ok" /\ notifier_calls = 0 /\ store_writes = 0)
     /\ notifier_calls' > notifier_calls
          => (fetch = "ok" /\ idx > NumRules /\ notifier_calls = 0
              /\ store_writes = 0)
     /\ store_writes' > store_writes
          => (pc = "persist" /\ result # "none" /\ store_writes = 0)
     /\ (pc' = "fetch" /\ pc # "fetch") => store_writes = 1
     /\ fetch' # fetch
          => (pc = "fetch" \/ pc' = "fetch")]_vars

C20_Witness ==
  /\ pc = "sleep" /\ Running /\ fetch = "ok"
  /\ idx = NumRules + 1 /\ notifier_calls = 1 /\ store_writes = 1
  /\ \A i \in Rules : Evaluated(i)

====
